---- MODULE Spec2Model ----
(***************************************************************************)
(* tumblebit.ec: the EC key wrapper (load / get_pubkey / sign / verify)   *)
(* and the signature codec (serialize_sig / deserialize_sig) that turns a *)
(* DER signature into the 64-byte R || S form and back.                    *)
(*                                                                         *)
(* Byte strings are sequences over 0..255.  A BIGNUM is modelled by its    *)
(* magnitude, the big-endian byte string without leading zeros (zero is    *)
(* the empty string); NullBN is the NULL pointer.                          *)
(***************************************************************************)
EXTENDS Integers, Sequences, FiniteSets, TLC

VARIABLES init, is_private, key, hist

vars == <<init, is_private, key, hist>>

-----------------------------------------------------------------------------
(* Bounds of the model.                                                    *)

\* key pairs that exist: key id k has private key k and public key k
MaxKey == 2
\* messages (digests) the caller signs or verifies
MaxMsg == 2
\* calls in a row that each take what the one before returned
MaxChain == 3

(* Program constants.                                                      *)

\* width of R and of S in the serial signature
COMPONENT_LEN == 32
\* width of the serial signature
SERIAL_LEN == 64

Keys == 1..MaxKey
Msgs == 1..MaxMsg
NoKey == 0

-----------------------------------------------------------------------------
(* Outcomes of a call.                                                     *)

NoBytes == << >>

Returned(b) == [kind |-> "bytes", bytes |-> b, bool |-> FALSE, err |-> ""]
ReturnedBool(v) == [kind |-> "bool", bytes |-> NoBytes, bool |-> v, err |-> ""]
ReturnedNone == [kind |-> "none", bytes |-> NoBytes, bool |-> FALSE, err |-> ""]
Raised(e) == [kind |-> "raise", bytes |-> NoBytes, bool |-> FALSE, err |-> e]

\* the exceptions of ec.py, by type and message
NoKeyLoaded == "ValueError: No key is loaded."
NeedsPrivateKey == "ValueError: Signing requires a private key"
BadSerialLength == "ValueError: Serial sig has to be 64 bytes."
\* exceptions that come from outside ec.py
IOError == "IOError"
LibraryError == "LibraryError"
CodecError == "CodecError"

-----------------------------------------------------------------------------
(* Byte strings.                                                           *)

Zeros(n) == [i \in 1..n |-> 0]

Fill(n, b) == [i \in 1..n |-> b]

RECURSIVE StripZeros(_)
StripZeros(s) ==
    IF s = << >> THEN << >>
    ELSE IF s[1] = 0 THEN StripZeros(Tail(s))
    ELSE s


RECURSIVE AddOne(_)
\* s + 1 on a big-endian byte string, same length (the carry out is dropped)
AddOne(s) ==
    IF s = << >> THEN << >>
    ELSE LET n == Len(s)
         IN  IF s[n] < 255 THEN [s EXCEPT ![n] = s[n] + 1]
             ELSE Append(AddOne(SubSeq(s, 1, n - 1)), 0)

\* bit b (0 = least significant) of byte i of s, inverted
FlipBit(s, i, b) ==
    LET w == 2 ^ b
    IN  [s EXCEPT ![i] = IF (s[i] \div w) % 2 = 1 THEN s[i] - w ELSE s[i] + w]

-----------------------------------------------------------------------------
(* The big-number helpers of the tumblebit package.                        *)

NullBN == << -1 >>

\* BN_bin2bn: the unsigned big-endian integer in s
BinToBN(s) == StripZeros(s)

\* the bignum in exactly `size` big-endian bytes, left-padded with zeros;
\* a NULL bignum or one that needs more than `size` bytes is an error
BNToBin(bn, size) ==
    IF bn = NullBN \/ Len(bn) > size THEN Raised(CodecError)
    ELSE Returned(Zeros(size - Len(bn)) \o bn)

-----------------------------------------------------------------------------
(* The library: DER encoding of ECDSA-Sig-Value ::= SEQUENCE {r, s}.       *)

SEQUENCE_TAG == 48
INTEGER_TAG == 2

\* the content octets of INTEGER bn (bn >= 0): minimal, with a leading zero
\* (sign guard) when the top bit of the first byte is set
IntegerContent(bn) ==
    IF bn = << >> THEN <<0>>
    ELSE IF bn[1] >= 128 THEN <<0>> \o bn
    ELSE bn

DerInteger(bn) == <<INTEGER_TAG, Len(IntegerContent(bn))>> \o IntegerContent(bn)

\* i2d_ECDSA_SIG on a structure with both fields set
DerSignature(r, s) ==
    <<SEQUENCE_TAG, Len(DerInteger(r)) + Len(DerInteger(s))>>
        \o DerInteger(r) \o DerInteger(s)

\* i2d_ECDSA_SIG(sig, 0): the length of the encoding, 0 when it cannot encode
i2d_ECDSA_SIG_len(r, s) ==
    IF r = NullBN \/ s = NullBN THEN 0 ELSE Len(DerSignature(r, s))

\* the magnitude of the INTEGER with content octets c (two's complement)
IntegerMagnitude(c) ==
    IF c[1] < 128 THEN StripZeros(c)
    ELSE StripZeros(AddOne([i \in 1..Len(c) |-> 255 - c[i]]))

\* d2i_ECDSA_SIG: parses sig; on failure the structure's fields stay NULL
d2i_ECDSA_SIG(sig) ==
    LET bad == [ok |-> FALSE, r |-> NullBN, s |-> NullBN]
    IN  IF Len(sig) < 2 \/ sig[1] # SEQUENCE_TAG \/ sig[2] >= 128
           \/ sig[2] > Len(sig) - 2 \/ sig[2] < 2
        THEN bad
        ELSE LET body == SubSeq(sig, 3, 2 + sig[2])
                 l1 == body[2]
             IN  IF body[1] # INTEGER_TAG \/ l1 < 1 \/ l1 >= 128
                    \/ Len(body) < l1 + 4
                 THEN bad
                 ELSE LET l2 == body[l1 + 4]
                      IN  IF body[l1 + 3] # INTEGER_TAG \/ l2 < 1
                             \/ Len(body) # l1 + l2 + 4
                          THEN bad
                          ELSE [ok |-> TRUE,
                                r |-> IntegerMagnitude(SubSeq(body, 3, l1 + 2)),
                                s |-> IntegerMagnitude(
                                          SubSeq(body, l1 + 5, l1 + l2 + 4))]

-----------------------------------------------------------------------------
(* The library: the key object (CECKey) and ECDSA.                         *)

EmptyKey == [pub |-> NoKey, priv |-> NoKey]

\* the contents of a key file: the encoding of public key k, of private
\* key k, or bytes that are no key
PubFile(k) == [kind |-> "pub", k |-> k]
PrivFile(k) == [kind |-> "priv", k |-> k]
Garbage == [kind |-> "garbage", k |-> NoKey]
\* a path that cannot be opened
Missing == [kind |-> "missing", k |-> NoKey]

Files == {PubFile(k) : k \in Keys} \cup {PrivFile(k) : k \in Keys}
             \cup {Garbage, Missing}

\* CECKey.set_pubkey: sets the public point; the private scalar is kept
set_pubkey(k, f) ==
    IF f.kind = "pub" THEN [ok |-> TRUE, key |-> [k EXCEPT !.pub = f.k]]
    ELSE [ok |-> FALSE, key |-> k]

\* CECKey.set_privkey: sets the private scalar and its public point
set_privkey(k, f) ==
    IF f.kind = "priv" THEN [ok |-> TRUE, key |-> [pub |-> f.k, priv |-> f.k]]
    ELSE [ok |-> FALSE, key |-> k]

\* CECKey.get_pubkey: the encoding of the public point, empty without one
PubEncoding(k) == IF k = NoKey THEN << >> ELSE <<4, k>>

\* the signature (r, s) of message m under key k
SigR(k, m) ==
    StripZeros(Zeros(m - 1) \o <<255>> \o Fill(COMPONENT_LEN - m - 1, 0) \o <<m>>)

SigS(k, m) == <<k>> \o Fill(COMPONENT_LEN - 2, 17) \o <<m>>

\* CECKey.sign: the DER signature; fails without a private scalar
LibSign(k, m) ==
    IF k.priv = NoKey THEN Raised(LibraryError)
    ELSE Returned(DerSignature(SigR(k.priv, m), SigS(k.priv, m)))

\* CECKey.verify / ECDSA_verify: 1 valid, 0 invalid, -1 error
LibVerify(k, m, sig) ==
    LET p == d2i_ECDSA_SIG(sig)
    IN  IF k.pub = NoKey \/ ~p.ok THEN -1
        ELSE IF p.r = SigR(k.pub, m) /\ p.s = SigS(k.pub, m) THEN 1
        ELSE 0

-----------------------------------------------------------------------------
(* class EC.  `self` is [init, is_private, key]; every method gives the    *)
(* handle after the call, what the call returned or raised, and the        *)
(* library and helper functions it called.                                 *)

Self(i, p, k) == [init |-> i, is_private |-> p, key |-> k]

Result(self, out, calls) == [self |-> self, out |-> out, calls |-> calls]

\* EC.__init__
EC == Self(FALSE, FALSE, EmptyKey)

\* load_public_key that clears init before it loads
load_public_key_ResetFirst(self, f, libRaises) ==
    IF f = Missing THEN Result([self EXCEPT !.init = FALSE], Raised(IOError), {})
    ELSE LET lib == set_pubkey(self.key, f)
         IN  IF ~lib.ok /\ libRaises
             THEN Result([self EXCEPT !.init = FALSE],
                         Raised(LibraryError), {"key.set_pubkey"})
             ELSE Result([self EXCEPT !.key = lib.key, !.init = TRUE],
                         ReturnedNone, {"key.set_pubkey"})

\* load_public_key with init set before the key is given to the library
load_public_key_InitFirst(self, f, libRaises) ==
    IF f = Missing THEN Result(self, Raised(IOError), {})
    ELSE LET lib == set_pubkey(self.key, f)
         IN  IF ~lib.ok /\ libRaises
             THEN Result([self EXCEPT !.init = TRUE],
                         Raised(LibraryError), {"key.set_pubkey"})
             ELSE Result([self EXCEPT !.key = lib.key, !.init = TRUE],
                         ReturnedNone, {"key.set_pubkey"})

\* load_public_key that also sets is_private = False
load_public_key_ClearsPrivate(self, f, libRaises) ==
    IF f = Missing THEN Result(self, Raised(IOError), {})
    ELSE LET lib == set_pubkey(self.key, f)
         IN  IF ~lib.ok /\ libRaises
             THEN Result(self, Raised(LibraryError), {"key.set_pubkey"})
             ELSE Result([self EXCEPT !.key = lib.key, !.init = TRUE,
                                      !.is_private = FALSE],
                         ReturnedNone, {"key.set_pubkey"})

\* EC.load_public_key.  libRaises: the library reports bytes it rejects by
\* raising (TRUE) or by its return value (FALSE); the return value is not read
load_public_key(self, f, libRaises) ==
    IF f = Missing THEN Result(self, Raised(IOError), {})
    ELSE LET lib == set_pubkey(self.key, f)
         IN  IF ~lib.ok /\ libRaises
             THEN Result(self, Raised(LibraryError), {"key.set_pubkey"})
             ELSE Result([self EXCEPT !.key = lib.key, !.init = TRUE],
                         ReturnedNone, {"key.set_pubkey"})

\* load_private_key with is_private set before the key is given to the library
load_private_key_FlagFirst(self, f, libRaises) ==
    IF f = Missing THEN Result(self, Raised(IOError), {})
    ELSE LET lib == set_privkey(self.key, f)
         IN  IF ~lib.ok /\ libRaises
             THEN Result([self EXCEPT !.is_private = TRUE],
                         Raised(LibraryError), {"key.set_privkey"})
             ELSE Result([self EXCEPT !.key = lib.key, !.init = TRUE,
                                      !.is_private = TRUE],
                         ReturnedNone, {"key.set_privkey"})

\* EC.load_private_key
load_private_key(self, f, libRaises) ==
    IF f = Missing THEN Result(self, Raised(IOError), {})
    ELSE LET lib == set_privkey(self.key, f)
         IN  IF ~lib.ok /\ libRaises
             THEN Result(self, Raised(LibraryError), {"key.set_privkey"})
             ELSE Result([self EXCEPT !.key = lib.key, !.init = TRUE,
                                      !.is_private = TRUE],
                         ReturnedNone, {"key.set_privkey"})

\* get_pubkey that raises without a key, as sign and verify do
get_pubkey_Raising(self) ==
    IF ~self.init THEN Result(self, Raised(NoKeyLoaded), {})
    ELSE Result(self, Returned(PubEncoding(self.key.pub)), {"key.get_pubkey"})

\* get_pubkey that refreshes is_private from the key object
get_pubkey_Refreshing(self) ==
    IF ~self.init THEN Result(self, ReturnedNone, {})
    ELSE Result([self EXCEPT !.is_private = self.key.priv # NoKey],
                Returned(PubEncoding(self.key.pub)), {"key.get_pubkey"})

\* EC.get_pubkey
get_pubkey(self) ==
    IF ~self.init THEN Result(self, ReturnedNone, {})
    ELSE Result(self, Returned(PubEncoding(self.key.pub)), {"key.get_pubkey"})

\* EC.sign
sign(self, msg) ==
    IF self.init
    THEN IF self.is_private
         THEN Result(self, LibSign(self.key, msg), {"key.sign"})
         ELSE Result(self, Raised(NeedsPrivateKey), {})
    ELSE Result(self, Raised(NoKeyLoaded), {})

\* verify that returns the truth value of the library's result
verify_RawResult(self, msg, sig) ==
    IF self.init
    THEN Result(self, ReturnedBool(LibVerify(self.key, msg, sig) # 0),
                {"key.verify"})
    ELSE Result(self, Raised(NoKeyLoaded), {})

\* EC.verify
verify(self, msg, sig) ==
    IF self.init
    THEN Result(self, ReturnedBool(LibVerify(self.key, msg, sig) = 1),
                {"key.verify"})
    ELSE Result(self, Raised(NoKeyLoaded), {})

\* serialize_sig that returns s + r
serialize_sig_Swapped(self, sig) ==
    LET sig_struct == d2i_ECDSA_SIG(sig)
        r == BNToBin(sig_struct.r, COMPONENT_LEN)
        s == BNToBin(sig_struct.s, COMPONENT_LEN)
        calls == {"d2i_ECDSA_SIG", "BNToBin"}
    IN  IF r.kind = "raise" THEN Result(self, r, calls)
        ELSE IF s.kind = "raise" THEN Result(self, s, calls)
        ELSE Result(self, Returned(s.bytes \o r.bytes), calls)

\* the first 32 bytes of the INTEGER's content octets, sign guard included
Truncated(bn) ==
    LET c == IntegerContent(bn)
    IN  IF Len(c) > COMPONENT_LEN THEN SubSeq(c, 1, COMPONENT_LEN)
        ELSE Zeros(COMPONENT_LEN - Len(c)) \o c

\* serialize_sig that truncates the DER integers to 32 bytes as they are
serialize_sig_Truncating(self, sig) ==
    LET sig_struct == d2i_ECDSA_SIG(sig)
        calls == {"d2i_ECDSA_SIG", "BNToBin"}
    IN  IF ~sig_struct.ok THEN Result(self, Raised(CodecError), calls)
        ELSE Result(self, Returned(Truncated(sig_struct.r)
                                       \o Truncated(sig_struct.s)), calls)

\* serialize_sig that does not pad the integers to 32 bytes
serialize_sig_NoPadding(self, sig) ==
    LET sig_struct == d2i_ECDSA_SIG(sig)
        calls == {"d2i_ECDSA_SIG", "BNToBin"}
    IN  IF ~sig_struct.ok THEN Result(self, Raised(CodecError), calls)
        ELSE Result(self, Returned(sig_struct.r \o sig_struct.s), calls)

\* EC.serialize_sig: the result of d2i_ECDSA_SIG is not read
serialize_sig(self, sig) ==
    LET sig_struct == d2i_ECDSA_SIG(sig)
        r == BNToBin(sig_struct.r, COMPONENT_LEN)
        s == BNToBin(sig_struct.s, COMPONENT_LEN)
        calls == {"d2i_ECDSA_SIG", "BNToBin"}
    IN  IF r.kind = "raise" THEN Result(self, r, calls)
        ELSE IF s.kind = "raise" THEN Result(self, s, calls)
        ELSE Result(self, Returned(r.bytes \o s.bytes), calls)

\* deserialize_sig that accepts 64 bytes or more
deserialize_sig_LengthAtLeast(self, serial_sig, alloc) ==
    IF Len(serial_sig) >= SERIAL_LEN
    THEN LET r == IF alloc THEN BinToBN(SubSeq(serial_sig, 1, COMPONENT_LEN))
                  ELSE NullBN
             s == IF alloc
                  THEN BinToBN(SubSeq(serial_sig, COMPONENT_LEN + 1,
                                      Len(serial_sig)))
                  ELSE NullBN
             derlen == i2d_ECDSA_SIG_len(r, s)
         IN  IF derlen = 0
             THEN Result(self, ReturnedNone,
                         {"BinToBN", "i2d_ECDSA_SIG", "ECDSA_SIG_free"})
             ELSE Result(self, Returned(DerSignature(r, s)),
                         {"BinToBN", "i2d_ECDSA_SIG"})
    ELSE Result(self, Raised(BadSerialLength), {})

\* deserialize_sig that takes R from serial_sig[1:32]
deserialize_sig_OffByOne(self, serial_sig, alloc) ==
    IF Len(serial_sig) = SERIAL_LEN
    THEN LET r == IF alloc THEN BinToBN(SubSeq(serial_sig, 2, COMPONENT_LEN))
                  ELSE NullBN
             s == IF alloc
                  THEN BinToBN(SubSeq(serial_sig, COMPONENT_LEN + 1, SERIAL_LEN))
                  ELSE NullBN
             derlen == i2d_ECDSA_SIG_len(r, s)
         IN  IF derlen = 0
             THEN Result(self, ReturnedNone,
                         {"BinToBN", "i2d_ECDSA_SIG", "ECDSA_SIG_free"})
             ELSE Result(self, Returned(DerSignature(r, s)),
                         {"BinToBN", "i2d_ECDSA_SIG"})
    ELSE Result(self, Raised(BadSerialLength), {})

\* EC.deserialize_sig.  alloc: BN_bin2bn gets the memory it asks for
deserialize_sig(self, serial_sig, alloc) ==
    IF Len(serial_sig) = SERIAL_LEN
    THEN LET r == IF alloc THEN BinToBN(SubSeq(serial_sig, 1, COMPONENT_LEN))
                  ELSE NullBN
             s == IF alloc
                  THEN BinToBN(SubSeq(serial_sig, COMPONENT_LEN + 1, SERIAL_LEN))
                  ELSE NullBN
             derlen == i2d_ECDSA_SIG_len(r, s)
         IN  IF derlen = 0
             THEN Result(self, ReturnedNone,
                         {"BinToBN", "i2d_ECDSA_SIG", "ECDSA_SIG_free"})
             ELSE Result(self, Returned(DerSignature(r, s)),
                         {"BinToBN", "i2d_ECDSA_SIG"})
    ELSE Result(self, Raised(BadSerialLength), {})

-----------------------------------------------------------------------------
(* The caller: one handle, and the last calls made on it.                  *)

Flags(self) == [init |-> self.init, is_private |-> self.is_private]

NoFile == [kind |-> "none", k |-> NoKey]

\* the record of one call; `from` tells where the caller took the byte
\* string it passed: "input" (it had it at hand), "returned" (the previous
\* call returned it) or "tampered" (that, with one bit inverted)
\* libRaises and alloc are what the library did during the call
Call(op, f, msg, arg, from, libRaises, alloc, pre, res) ==
    [op |-> op, file |-> f, msg |-> msg, arg |-> arg, from |-> from,
     libRaises |-> libRaises, alloc |-> alloc,
     out |-> res.out, calls |-> res.calls,
     pre |-> Flags(pre), post |-> Flags(res.self)]

\* the history is the last call, preceded by the calls whose results led to
\* its argument
Push(h, c) == IF c.from = "input" THEN <<c>> ELSE Append(h, c)

Current == Self(init, is_private, key)

Do(op, f, msg, arg, from, libRaises, alloc, res) ==
    /\ init' = res.self.init
    /\ is_private' = res.self.is_private
    /\ key' = res.self.key
    /\ hist' = Push(hist, Call(op, f, msg, arg, from, libRaises, alloc, Current, res))

\* the bytes the last call returned, while the caller goes on with them
LastBytes ==
    IF hist # << >> /\ Len(hist) < MaxChain /\ hist[Len(hist)].out.kind = "bytes"
    THEN {hist[Len(hist)].out.bytes}
    ELSE {}

\* 32-byte components: zero, 0x80 00..00, 00 7f ff..ff, ff..ff
Components ==
    { Zeros(COMPONENT_LEN),
      <<128>> \o Zeros(COMPONENT_LEN - 1),
      <<0, 127>> \o Fill(COMPONENT_LEN - 2, 255),
      Fill(COMPONENT_LEN, 255) }

\* serial signatures the caller has at hand, of the right and of wrong lengths
SerialInputs ==
    { r \o s : r \in Components, s \in Components }
        \cup { Zeros(SERIAL_LEN - 1), Zeros(SERIAL_LEN + 1), << >> }

\* one bit of a serial signature inverted: the top or the low bit of the
\* first or the last byte of R or of S
Tampered(c) ==
    IF Len(c) # SERIAL_LEN THEN {}
    ELSE { FlipBit(c, i, b) :
             i \in {1, COMPONENT_LEN, COMPONENT_LEN + 1, SERIAL_LEN},
             b \in {0, 7} }

\* the byte strings the caller can pass, with where each comes from
Args(inputs) ==
    { [bytes |-> b, from |-> "input"] : b \in inputs }
        \cup { [bytes |-> b, from |-> "returned"] : b \in LastBytes }

SerialArgs ==
    Args(SerialInputs)
        \cup { [bytes |-> b, from |-> "tampered"] :
                 b \in UNION { Tampered(c) : c \in LastBytes } }

\* DER signatures the caller has at hand: signatures of the known keys, an
\* R of 33 bytes, a negative R, a wrong outer tag, a truncated encoding
DerInputs ==
    { DerSignature(SigR(k, m), SigS(k, m)) : k \in Keys, m \in Msgs }
        \cup { DerSignature(<<1>> \o Zeros(COMPONENT_LEN), <<1>>),
               <<48, 6, 2, 1, 128, 2, 1, 1>>,
               <<49, 6, 2, 1, 1, 2, 1, 1>>,
               <<48, 6, 2, 1, 1, 2, 1>>,
               << >> }

Init ==
    /\ init = EC.init
    /\ is_private = EC.is_private
    /\ key = EC.key
    /\ hist = << >>

LoadPublicKey ==
    \E f \in Files, libRaises \in BOOLEAN :
        /\ libRaises => f # Missing /\ ~set_pubkey(key, f).ok
        /\ Do("load_public_key", f, 0, NoBytes, "input", libRaises, TRUE,
              load_public_key(Current, f, libRaises))

LoadPrivateKey ==
    \E f \in Files, libRaises \in BOOLEAN :
        /\ libRaises => f # Missing /\ ~set_privkey(key, f).ok
        /\ Do("load_private_key", f, 0, NoBytes, "input", libRaises, TRUE,
              load_private_key(Current, f, libRaises))

GetPubkey ==
    Do("get_pubkey", NoFile, 0, NoBytes, "input", FALSE, TRUE, get_pubkey(Current))

Sign ==
    \E msg \in Msgs :
        Do("sign", NoFile, msg, NoBytes, "input", FALSE, TRUE, sign(Current, msg))

Verify ==
    \E msg \in Msgs, sig \in Args(DerInputs) :
        Do("verify", NoFile, msg, sig.bytes, sig.from, FALSE, TRUE,
           verify(Current, msg, sig.bytes))

SerializeSig ==
    \E sig \in Args(DerInputs) :
        Do("serialize_sig", NoFile, 0, sig.bytes, sig.from, FALSE, TRUE,
           serialize_sig(Current, sig.bytes))

DeserializeSig ==
    \E serial_sig \in SerialArgs, alloc \in BOOLEAN :
        /\ ~alloc => Len(serial_sig.bytes) = SERIAL_LEN
        /\ Do("deserialize_sig", NoFile, 0, serial_sig.bytes, serial_sig.from,
              FALSE, alloc, deserialize_sig(Current, serial_sig.bytes, alloc))

Next ==
    \/ LoadPublicKey
    \/ LoadPrivateKey
    \/ GetPubkey
    \/ Sign
    \/ Verify
    \/ SerializeSig
    \/ DeserializeSig

Spec == Init /\ [][Next]_vars

-----------------------------------------------------------------------------
(* Properties.                                                             *)

Called == hist # << >>

Last == hist[Len(hist)]

\* the two halves of a serial signature
RBytes(c) == SubSeq(c, 1, COMPONENT_LEN)
SBytes(c) == SubSeq(c, COMPONENT_LEN + 1, SERIAL_LEN)

HighBitValue == <<128>> \o Zeros(COMPONENT_LEN - 1)
ZeroValue == Zeros(COMPONENT_LEN)

\* the serial signature c has v as its R or as its S
HasComponent(c, v) ==
    /\ Len(c) = SERIAL_LEN
    /\ RBytes(c) = v \/ SBytes(c) = v

\* the call before the last one, and the one before that
Prev == hist[Len(hist) - 1]
First == hist[Len(hist) - 2]

\* the last two calls are deserialize_sig, which returned a signature, and
\* serialize_sig of that signature
RoundTrip ==
    /\ Len(hist) >= 2
    /\ Prev.op = "deserialize_sig"
    /\ Prev.out.kind = "bytes"
    /\ Last.op = "serialize_sig"
    /\ Last.from = "returned"

\* C1: sign returns a signature only on a handle with init and is_private
\* set; on a handle on which no load has succeeded (the key object holds no
\* key) it raises "No key is loaded."; on a handle loaded only with a public
\* key it raises "Signing requires a private key" and does not call key.sign.
C1_SignGated ==
    (Called /\ Last.op = "sign") =>
        /\ Last.out.kind = "bytes" => Last.pre.init /\ Last.pre.is_private
        /\ key = EmptyKey => Last.out = Raised(NoKeyLoaded)
        /\ (key.pub # NoKey /\ key.priv = NoKey) =>
               Last.out = Raised(NeedsPrivateKey) /\ Last.calls = {}

\* C2: deserialize_sig on an input that is not exactly 64 bytes long raises
\* "Serial sig has to be 64 bytes." and calls neither BinToBN nor the encoder.
C2_WrongLengthRejected ==
    (Called /\ Last.op = "deserialize_sig" /\ Len(Last.arg) # SERIAL_LEN) =>
        /\ Last.out = Raised(BadSerialLength)
        /\ Last.calls = {}

C2_Witness ==
    /\ Called
    /\ Last.op = "deserialize_sig"
    /\ Len(Last.arg) = SERIAL_LEN + 1
    /\ Last.out = Raised(BadSerialLength)

\* C3: when serialize_sig(s) returned c, deserialize_sig(c) returned d and
\* serialize_sig(d) was called, that call returned c again.
C3_Idempotent ==
    ( /\ Len(hist) >= 3
      /\ First.op = "serialize_sig" /\ First.out.kind = "bytes"
      /\ Prev.from = "returned"
      /\ RoundTrip )
    => Last.out = First.out

C3_Witness ==
    /\ Len(hist) >= 3
    /\ First.op = "serialize_sig" /\ First.out.kind = "bytes"
    /\ RBytes(First.out.bytes)[1] >= 128
    /\ RBytes(First.out.bytes) # SBytes(First.out.bytes)
    /\ Prev.from = "returned"
    /\ RoundTrip
    /\ Last.out = First.out

\* the last three calls are serialize_sig of a signature that is valid for
\* the loaded key and msg, deserialize_sig of its result with one bit
\* inverted, and verify(msg, .) of what that returned
TamperedVerify ==
    /\ Len(hist) >= 3
    /\ First.op = "serialize_sig"
    /\ Prev.op = "deserialize_sig" /\ Prev.from = "tampered"
    /\ Last.op = "verify" /\ Last.from = "returned"
    /\ LibVerify(key, Last.msg, First.arg) = 1

\* C4: on a handle with init set, verify returns True or False and does not
\* raise; it returns False when the library's result is not 1 (0 or the
\* error result -1), and False for a tampered signature.
C4_VerifyReturnsBool ==
    (Called /\ Last.op = "verify" /\ Last.pre.init) =>
        /\ Last.out.kind = "bool"
        /\ LibVerify(key, Last.msg, Last.arg) # 1 => Last.out = ReturnedBool(FALSE)
        /\ TamperedVerify => Last.out = ReturnedBool(FALSE)

C4_Witness ==
    /\ TamperedVerify
    /\ Last.pre.init
    /\ Last.out = ReturnedBool(FALSE)

\* C5: verify on a handle on which no load has succeeded (the key object
\* holds no key) raises "No key is loaded." and does not call key.verify.
C5_VerifyNeedsKey ==
    (Called /\ Last.op = "verify" /\ key = EmptyKey) =>
        /\ Last.out = Raised(NoKeyLoaded)
        /\ Last.calls = {}

\* C6: in every reachable state is_private implies init.
C6_PrivateImpliesInit == is_private => init

C6_Witness ==
    /\ Called
    /\ Last.op = "load_private_key"
    /\ ~Last.pre.init
    /\ is_private /\ init

\* the handle before the last call: Empty, PublicLoaded, or PrivateLoaded (the
\* key object holds a private key; load_public_key leaves that key in place)
WasEmpty == ~Last.pre.init
WasPublicLoaded == Last.pre.init /\ ~Last.pre.is_private
WasPrivateLoaded == Last.pre.init /\ Last.pre.is_private /\ key.priv # NoKey

\* C7: after load_public_key has loaded a public key, init is set and
\* is_private is not, whatever the state before the call (Empty,
\* PublicLoaded or PrivateLoaded).
C7_PublicLoadClearsPrivate ==
    ( /\ Called
      /\ Last.op = "load_public_key"
      /\ Last.out.kind = "none"
      /\ Last.file.kind = "pub"
      /\ WasEmpty \/ WasPublicLoaded \/ WasPrivateLoaded )
    => init /\ ~is_private

\* C8: for a DER signature whose integers R and S each fit in 32 bytes,
\* serialize_sig returns exactly 64 bytes, the first 32 the big-endian
\* unsigned value R and the last 32 the value S, whatever the length of
\* their DER content octets (shorter, or 33 with the sign guard).
C8_FixedWidth ==
    (Called /\ Last.op = "serialize_sig" /\ d2i_ECDSA_SIG(Last.arg).ok
        /\ Len(d2i_ECDSA_SIG(Last.arg).r) <= COMPONENT_LEN
        /\ Len(d2i_ECDSA_SIG(Last.arg).s) <= COMPONENT_LEN) =>
        /\ Last.out.kind = "bytes"
        /\ Len(Last.out.bytes) = SERIAL_LEN
        /\ StripZeros(RBytes(Last.out.bytes)) = d2i_ECDSA_SIG(Last.arg).r
        /\ StripZeros(SBytes(Last.out.bytes)) = d2i_ECDSA_SIG(Last.arg).s

\* R arrives with a sign guard (33 content octets, the first 0) and S with
\* content octets shorter than 32
C8_Witness ==
    /\ Called
    /\ Last.op = "serialize_sig"
    /\ Len(Last.arg) > 5
    /\ Last.arg[4] = COMPONENT_LEN + 1 /\ Last.arg[5] = 0
    /\ Len(d2i_ECDSA_SIG(Last.arg).s) < COMPONENT_LEN
    /\ Last.out.kind = "bytes"
    /\ Len(Last.out.bytes) = SERIAL_LEN
    /\ RBytes(Last.out.bytes)[1] >= 128

\* C9: a serial signature whose R or S is 0x80 followed by 31 zero bytes
\* comes back unchanged from deserialize_sig followed by serialize_sig.
C9_HighBitSurvives ==
    (RoundTrip /\ HasComponent(Prev.arg, HighBitValue)) =>
        Last.out = Returned(Prev.arg)

C9_Witness ==
    /\ RoundTrip
    /\ RBytes(Prev.arg) = HighBitValue
    /\ SBytes(Prev.arg) # HighBitValue
    /\ Last.out = Returned(Prev.arg)

\* C10: a serial signature whose R or S is 32 zero bytes is accepted by
\* deserialize_sig (it returns a DER signature whenever the library can
\* allocate its numbers) and serialize_sig of that result returns the same
\* 64 bytes.
C10_ZeroSurvives ==
    /\ ( Called /\ Last.op = "deserialize_sig" /\ Last.alloc
         /\ HasComponent(Last.arg, ZeroValue) ) => Last.out.kind = "bytes"
    /\ (RoundTrip /\ HasComponent(Prev.arg, ZeroValue)) =>
           Last.out = Returned(Prev.arg)

C10_Witness ==
    /\ RoundTrip
    /\ RBytes(Prev.arg) = ZeroValue
    /\ SBytes(Prev.arg) # ZeroValue
    /\ RBytes(Last.out.bytes) = ZeroValue
    /\ Last.out = Returned(Prev.arg)

C11_WitnessParse ==
    /\ Called
    /\ Last.op = "serialize_sig"
    /\ Last.arg # << >>
    /\ ~d2i_ECDSA_SIG(Last.arg).ok
    /\ Last.out = Raised(CodecError)

\* C12: deserialize_sig on 64 bytes raises the codec error whenever the
\* encoder reports a length of 0.
C12_EncoderFailureRaises ==
    ( /\ Called
      /\ Last.op = "deserialize_sig"
      /\ Len(Last.arg) = SERIAL_LEN
      /\ ~Last.alloc )
    => Last.out = Raised(CodecError)

\* the library rejects the bytes of the key file read by the call c
LibraryRejects(c) ==
    \/ c.op = "load_public_key" /\ c.file # Missing
           /\ ~set_pubkey(EmptyKey, c.file).ok
    \/ c.op = "load_private_key" /\ c.file # Missing
           /\ ~set_privkey(EmptyKey, c.file).ok

\* C13: when the library rejects the key bytes, load_public_key and
\* load_private_key raise.
C13_RejectedKeyRaises ==
    (Called /\ LibraryRejects(Last)) => Last.out.kind = "raise"

\* the last three calls are serialize_sig(s) for a signature s that sign
\* returns on this handle, deserialize_sig of its result, and verify(msg, .)
\* of what that returned
ConvertedVerify ==
    /\ Len(hist) >= 3
    /\ First.op = "serialize_sig"
    /\ init /\ is_private
    /\ \E m \in Msgs : LibSign(key, m) = Returned(First.arg)
    /\ Prev.from = "returned"
    /\ Prev.op = "deserialize_sig"
    /\ Last.op = "verify" /\ Last.from = "returned"

\* C14: for a signature s that sign returns on the handle, verify(msg, d)
\* with d = deserialize_sig(serialize_sig(s)) returns what verify(msg, s)
\* returns, for every msg.
C14_ConvertedVerifiesAlike ==
    ConvertedVerify => Last.out = verify(Current, Last.msg, First.arg).out

\* one witness where both return True and one where both return False
C14_Witness ==
    /\ ConvertedVerify
    /\ Last.out = ReturnedBool(TRUE)
    /\ Last.out = verify(Current, Last.msg, First.arg).out

C14_WitnessFalse ==
    /\ ConvertedVerify
    /\ Last.out = ReturnedBool(FALSE)
    /\ Last.out = verify(Current, Last.msg, First.arg).out

\* C15: on a handle whose private key has been loaded, sign(msg) followed
\* at once by verify(msg, sig) with the signature returned gives True.
C15_SignThenVerify ==
    ( /\ Len(hist) >= 2
      /\ key.priv # NoKey
      /\ Prev.op = "sign" /\ Prev.out.kind = "bytes"
      /\ Last.op = "verify" /\ Last.from = "returned"
      /\ Last.msg = Prev.msg )
    => Last.out = ReturnedBool(TRUE)

\* C16: once init is set it stays set, whatever is called and whether the
\* call returns or raises.
C16_NoWayBackToEmpty == [][init => init']_vars

C16_Witness ==
    /\ Called
    /\ Last.op \in {"load_public_key", "load_private_key"}
    /\ Last.out.kind = "raise"
    /\ Last.pre.init
    /\ init

\* C17: get_pubkey never raises; it returns None exactly when init is not
\* set and the key object's public-key encoding exactly when it is.
C17_PubkeyOrNone ==
    (Called /\ Last.op = "get_pubkey") =>
        /\ Last.out.kind # "raise"
        /\ Last.out = ReturnedNone <=> ~Last.pre.init
        /\ Last.out = Returned(PubEncoding(key.pub)) <=> Last.pre.init

C17_Witness ==
    /\ Called
    /\ Last.op = "get_pubkey"
    /\ Last.pre.init
    /\ key.pub # NoKey
    /\ Last.out = Returned(PubEncoding(key.pub))

C17_WitnessNone ==
    /\ Called
    /\ Last.op = "get_pubkey"
    /\ ~Last.pre.init
    /\ Last.out = ReturnedNone

\* C18: the flags after a call are those the call left, and sign, verify,
\* get_pubkey, serialize_sig and deserialize_sig leave init and is_private
\* as they were, whether they return or raise.
C18_OnlyLoadsChangeFlags ==
    Called =>
        /\ Last.post = Flags(Current)
        /\ Last.op \notin {"load_public_key", "load_private_key"} =>
               Last.post = Last.pre

C18_Witness ==
    /\ Called
    /\ Last.op = "get_pubkey"
    /\ Last.pre.init /\ Last.pre.is_private
    /\ Last.out.kind = "bytes"
    /\ Last.post = Last.pre

C18_WitnessRaise ==
    /\ Called
    /\ Last.op = "sign"
    /\ Last.out.kind = "raise"
    /\ Last.pre.init
    /\ Last.post = Last.pre

\* C19: a load_public_key or load_private_key call that raises leaves init
\* and is_private as they were; after such a call on an empty handle, sign
\* and verify raise "No key is loaded.".
C19_FailedLoadChangesNothing ==
    ( /\ Called
      /\ Last.op \in {"load_public_key", "load_private_key"}
      /\ Last.out.kind = "raise" )
    => /\ Last.post = Last.pre
       /\ Flags(Current) = Last.pre
       /\ ~Last.pre.init =>
              /\ \A m \in Msgs : sign(Current, m).out = Raised(NoKeyLoaded)
              /\ \A m \in Msgs, s \in DerInputs :
                     verify(Current, m, s).out = Raised(NoKeyLoaded)

\* the library's key-setting call raised, on an empty handle
C19_Witness ==
    /\ Called
    /\ Last.op = "load_public_key"
    /\ Last.out = Raised(LibraryError)
    /\ ~Last.pre.init
    /\ ~init

\* the key file could not be opened, on a handle with a private key
C19_WitnessMissing ==
    /\ Called
    /\ Last.op = "load_private_key"
    /\ Last.out = Raised(IOError)
    /\ Last.pre.init /\ Last.pre.is_private
    /\ init /\ is_private

\* the step is a load_private_key call that returned
LoadPrivateReturned ==
    /\ hist' # << >>
    /\ hist'[Len(hist')].op = "load_private_key"
    /\ hist'[Len(hist')].out.kind = "none"

====
